---- MODULE Spec2Model ----
(***************************************************************************)
(* The authentication controller (src/src/controllers/authController.ts):   *)
(* register, login, socialLogin and refreshToken, each an async handler     *)
(* that runs from one await to the next, over the User table.               *)
(*                                                                          *)
(* Two request slots run handlers concurrently; a handler's step is the     *)
(* code between two awaits, and a store call takes effect in the step that  *)
(* resumes after it.  A slot keeps its finished request until a newer       *)
(* request takes the slot, so that the last two requests can be compared.   *)
(***************************************************************************)
EXTENDS Integers, Sequences, FiniteSets, TLC

\* Upper bound on the token pairs generateTokens mints in one behaviour.
MaxIssue == 3

Slots == {1, 2}

\* Request payloads.  An email is a sequence of characters.
Emails == { <<"a">>, <<" ", "A", " ">> }
Passwords == {"p", "q"}
RegisterPasswords == {"p"}
SocialName == "n"
UNDEFINED == "undefined"
\* a payload without the email field
MissingEmail == <<UNDEFINED>>

VARIABLES
    users,      \* the User table: a sequence of rows, the primary key is the index
    issued,     \* how many token pairs generateTokens has minted
    delivered,  \* the token pairs that responses have carried to clients
    req         \* req[s]: the request in slot s, its locals and its response

vars == <<users, issued, delivered, req>>

-----------------------------------------------------------------------------
(* String.prototype.trim and toLowerCase, on sequences of characters.      *)

RECURSIVE TrimStart(_)
TrimStart(s) ==
    IF s # <<>> /\ Head(s) = " " THEN TrimStart(Tail(s)) ELSE s

RECURSIVE TrimEnd(_)
TrimEnd(s) ==
    IF s # <<>> /\ s[Len(s)] = " " THEN TrimEnd(SubSeq(s, 1, Len(s) - 1)) ELSE s

Trim(s) == TrimEnd(TrimStart(s))

LowerChar(c) == IF c = "A" THEN "a" ELSE IF c = "B" THEN "b" ELSE c

ToLowerCase(s) == [i \in 1..Len(s) |-> LowerChar(s[i])]

\* authController.ts:16  userData.email.trim().toLowerCase()
RegisterEmail(raw) == ToLowerCase(Trim(raw))

\* authController.ts:53,56  login looks the email up as it was sent
LoginEmail(raw) == raw

\* authController.ts:106,110  socialLogin looks the email up as it was sent
SocialEmail(raw) == raw

-----------------------------------------------------------------------------
(* bcryptjs: hash and compare.                                             *)

NoPassword == ""
BcryptHash(p) == "$2a$10$" \o p
BcryptCompare(p, digest) == digest = BcryptHash(p)

-----------------------------------------------------------------------------
(* Tokens.  A token is what jwt.sign made of it: the secret it was signed  *)
(* with, the claims, the issue number and whether its expiry has passed.   *)

NoEmail == <<>>
NoToken == [secret |-> "none", id |-> 0, name |-> "", email |-> NoEmail,
            role |-> "", iat |-> 0, expired |-> FALSE]
\* a string that is no JWT
Malformed == [secret |-> "malformed", id |-> 0, name |-> "", email |-> NoEmail,
              role |-> "", iat |-> 0, expired |-> FALSE]
\* a refresh token of user 1, signed with the refresh secret, whose expiry has passed
StaleToken == [secret |-> "refresh", id |-> 1, name |-> SocialName, email |-> <<"a">>,
               role |-> "user", iat |-> 0, expired |-> TRUE]

\* a token of user 1 signed with another secret than the refresh secret
Forged == [secret |-> "access", id |-> 1, name |-> SocialName, email |-> <<"a">>,
           role |-> "user", iat |-> 0, expired |-> FALSE]

Claims(x) == [id |-> x.id, name |-> x.name, email |-> x.email, role |-> x.role]

Sign(secret, claims, n) ==
    [secret |-> secret, id |-> claims.id, name |-> claims.name,
     email |-> claims.email, role |-> claims.role, iat |-> n, expired |-> FALSE]

\* helper.generateTokens: an access and a refresh token with the same claims
generateTokens(claims, n) ==
    [accessToken |-> Sign("access", claims, n),
     refreshToken |-> Sign("refresh", claims, n)]

NoTokens == [accessToken |-> NoToken, refreshToken |-> NoToken]

\* jwt.verify(token, JWT_REFRESH_SECRET) returns the payload, or throws
JwtVerifyIgnoresExpiry(token) == token.secret = "refresh"
JwtVerifyOk(token) == token.secret = "refresh" /\ ~token.expired

-----------------------------------------------------------------------------
(* The User table.                                                         *)

NoUser == [id |-> 0, name |-> "", email |-> NoEmail, role |-> ""]

NewRow(email, name, password) ==
    [email |-> email, name |-> name, role |-> "user",
     password |-> password, refreshToken |-> NoToken]

Ids == 1..Len(users)

\* User.findOne({ where: { email } }): the id of the row, 0 when there is none
FindOne(email) ==
    IF \E i \in Ids : users[i].email = email
    THEN CHOOSE i \in Ids : users[i].email = email
    ELSE 0

\* the row as get({ plain: true }) returns it, without the password
Plain(i) == [id |-> i, name |-> users[i].name, email |-> users[i].email,
             role |-> users[i].role]

\* The attributes of the User model that hold the refresh token.
TokenAttributes == {"refreshToken"}

\* User.update({ [key]: token }, { where: { id } }): a key that is no
\* attribute of the model is left out of the UPDATE.
UserUpdate(id, key, token) ==
    IF id \in Ids /\ key \in TokenAttributes
    THEN [users EXCEPT ![id].refreshToken = token]
    ELSE users

\* result?.getDataValue("refreshToken") after User.findByPk(id)
StoredToken(id) == IF id \in Ids THEN users[id].refreshToken ELSE NoToken

-----------------------------------------------------------------------------
(* Requests and responses.                                                 *)

\* result.get({ plain: true }) of a created row: every column of the row
PlainRow(id, row) ==
    [id |-> id, name |-> row.name, email |-> row.email, role |-> row.role,
     password |-> row.password]

\* delete user.password (line 38): the field is gone from the object
KeepPassword(user) == user
OmitPassword(user) == [user EXCEPT !.password = UNDEFINED]

\* a response without a user object
NoSentUser == [id |-> 0, name |-> "", email |-> NoEmail, role |-> "",
               password |-> UNDEFINED]

NoRes == [status |-> 0, text |-> "", accessToken |-> NoToken,
          refreshToken |-> NoToken, user |-> NoSentUser]

Failure(status, text) == [NoRes EXCEPT !.status = status, !.text = text]

NoBody == [email |-> NoEmail, password |-> UNDEFINED, name |-> "",
           refreshToken |-> NoToken]

Idle == [op |-> "none", pc |-> "idle", body |-> NoBody, email |-> NoEmail,
         user |-> NoUser, tokens |-> NoTokens, res |-> NoRes, sends |-> 0,
         rejected |-> FALSE, rel |-> "none", overlapped |-> FALSE,
         wasCurrent |-> FALSE,
         verified |-> FALSE, lookedUp |-> FALSE, wrote |-> FALSE]

Other(s) == CHOOSE t \in Slots : t # s

InFlight(q) == q.pc \notin {"idle", "done"}

\* res.status(..).json(..): the first call sends the response; a later one
\* throws (the headers are sent) and leaves the response as it is.
Sent(q) == q.res # NoRes
Send(q, response) ==
    [q EXCEPT !.res = IF Sent(q) THEN q.res ELSE response,
              !.sends = q.sends + 1]

Init ==
    /\ users = <<>>
    /\ issued = 0
    /\ delivered = {}
    /\ req = [s \in Slots |-> Idle]

-----------------------------------------------------------------------------
(* A request arrives in a slot.  rel orders the requests of the two slots: *)
(* "before"/"after" when one finished before the other arrived,            *)
(* "concurrent" when they overlapped.  A new request takes the place of    *)
(* the older finished request.                                             *)

CanBegin == \E s \in Slots : ~InFlight(req[s])

\* The finished requests a new request may leave in the window: the newer
\* one, or either of two that overlapped.
Keepers ==
    IF \E k \in Slots : req[k].pc = "done" /\ req[k].rel = "after"
    THEN {k \in Slots : req[k].pc = "done" /\ req[k].rel = "after"}
    ELSE IF \E k \in Slots : req[k].pc = "done"
    THEN {k \in Slots : req[k].pc = "done"}
    ELSE {1}

\* The slots once request q has arrived: beside the request in flight, or
\* in slot 2 with the kept finished request in slot 1.
Begun(q) ==
    IF \E t \in Slots : InFlight(req[t])
    THEN LET t == CHOOSE t \in Slots : InFlight(req[t]) IN
         {[x \in Slots |->
              IF x = t
              THEN [req[t] EXCEPT !.rel = "concurrent", !.overlapped = TRUE]
              ELSE [q EXCEPT !.rel = "concurrent", !.overlapped = TRUE]]}
    ELSE {[x \in Slots |->
              IF x = 1
              THEN IF req[k].pc = "done" THEN [req[k] EXCEPT !.rel = "before"]
                   ELSE req[k]
              ELSE [q EXCEPT !.rel = IF req[k].pc = "done" THEN "after" ELSE "alone"]]
          : k \in Keepers}

\* Requests in flight that have yet to call generateTokens.
MayMint(q) ==
    /\ InFlight(q)
    /\ q.op \in {"login", "socialLogin", "refreshToken"}
    /\ q.tokens = NoTokens
PendingMints == Cardinality({s \in Slots : MayMint(req[s])})
RoomToMint == issued + PendingMints < MaxIssue

-----------------------------------------------------------------------------
(* register, authController.ts:9-46                                        *)

\* The unique index on email rejects the INSERT.
UniqueViolation(email) == FindOne(email) # 0

\* lines 13-17: normalise the email, hash the password (outside the try)
RegisterStart(email, password) ==
    /\ CanBegin
    /\ LET q0 == [Idle EXCEPT !.op = "register",
                              !.body = [NoBody EXCEPT !.email = email,
                                                      !.password = password,
                                                      !.name = SocialName]]
           q1 == IF email = MissingEmail \/ password = UNDEFINED
                 THEN \* a TypeError, or bcrypt's rejection: the promise rejects
                      [q0 EXCEPT !.pc = "done", !.rejected = TRUE]
                 ELSE [q0 EXCEPT !.pc = "findOne", !.email = RegisterEmail(email)]
       IN req' \in Begun(q1)
    /\ UNCHANGED <<users, issued, delivered>>

\* lines 21-27
RegisterFindOne(s) ==
    /\ req[s].op = "register" /\ req[s].pc = "findOne"
    /\ LET q == req[s] IN
       req' = [req EXCEPT ![s] =
                 IF FindOne(q.email) # 0
                 THEN [Send(q, Failure(400, "User with this email already exists"))
                          EXCEPT !.pc = "done"]
                 ELSE [q EXCEPT !.pc = "create"]]
    /\ UNCHANGED <<users, issued, delivered>>

\* lines 30-45
RegisterCreate(s) ==
    /\ req[s].op = "register" /\ req[s].pc = "create"
    /\ LET q == req[s] IN
       IF UniqueViolation(q.email)
       THEN /\ req' = [req EXCEPT ![s] =
                  [Send(q, Failure(500, "An error occurred while creating the user"))
                      EXCEPT !.pc = "done"]]
            /\ users' = users
       ELSE LET row == NewRow(q.email, q.body.name, BcryptHash(q.body.password)) IN
            /\ users' = Append(users, row)
            /\ req' = [req EXCEPT ![s] =
                  [Send(q, [NoRes EXCEPT !.status = 201,
                                         !.text = "User created successfully",
                                         !.user = OmitPassword(
                                                     PlainRow(Len(users) + 1, row))])
                      EXCEPT !.pc = "done"]]
    /\ UNCHANGED <<issued, delivered>>

-----------------------------------------------------------------------------
(* login, authController.ts:49-102                                         *)

\* line 53
LoginStart(email, password) ==
    /\ CanBegin
    /\ RoomToMint
    /\ req' \in Begun([Idle EXCEPT !.op = "login", !.pc = "findOne",
                                    !.body = [NoBody EXCEPT !.email = email,
                                                            !.password = password],
                                    !.email = LoginEmail(email)])
    /\ UNCHANGED <<users, issued, delivered>>

\* lines 56-85 (catch: 99-101)
LoginFindOne(s) ==
    /\ req[s].op = "login" /\ req[s].pc = "findOne"
    /\ LET q == req[s]
           id == FindOne(q.email)
       IN
       IF id = 0
       THEN /\ req' = [req EXCEPT ![s] =
                  [Send(q, Failure(404, "User not found")) EXCEPT !.pc = "done"]]
            /\ issued' = issued
       ELSE IF users[id].password = NoPassword
       THEN \* bcrypt.compare rejects a hash that is no string
            /\ req' = [req EXCEPT ![s] =
                  [Send(q, Failure(400, "Illegal arguments: string, object"))
                      EXCEPT !.pc = "done"]]
            /\ issued' = issued
       ELSE IF ~BcryptCompare(q.body.password, users[id].password)
       THEN /\ req' = [req EXCEPT ![s] =
                  [Send(q, Failure(401, "Invalid credentials")) EXCEPT !.pc = "done"]]
            /\ issued' = issued
       ELSE /\ req' = [req EXCEPT ![s] =
                  [q EXCEPT !.pc = "update", !.user = Plain(id),
                            !.tokens = generateTokens(Plain(id), issued + 1)]]
            /\ issued' = issued + 1
    /\ UNCHANGED <<users, delivered>>

\* The key login hands to User.update (line 89).
LoginUpdateKey == "refresh_token"

\* lines 88-98
LoginUpdate(s) ==
    /\ req[s].op = "login" /\ req[s].pc = "update"
    /\ LET q == req[s] IN
       /\ users' = UserUpdate(q.user.id, LoginUpdateKey, q.tokens.refreshToken)
       /\ req' = [req EXCEPT ![s] =
             [Send(q, [NoRes EXCEPT !.status = 200, !.text = "Login successful",
                                    !.accessToken = q.tokens.accessToken,
                                    !.refreshToken = q.tokens.refreshToken])
                 EXCEPT !.pc = "done", !.wrote = TRUE]]
       /\ delivered' = delivered \cup {q.tokens}
    /\ UNCHANGED issued

-----------------------------------------------------------------------------
(* socialLogin, authController.ts:105-139                                  *)

\* line 106
SocialStart(email) ==
    /\ CanBegin
    /\ RoomToMint
    /\ req' \in Begun([Idle EXCEPT !.op = "socialLogin", !.pc = "findOrCreate",
                                    !.body = [NoBody EXCEPT !.email = email,
                                                            !.name = SocialName],
                                    !.email = SocialEmail(email)])
    /\ UNCHANGED <<users, issued, delivered>>

\* User.findOrCreate({ where: { email } }) (lines 109-112): the row it finds
SocialFindMiss(email) == 0
SocialFind(email) == FindOne(email)

\* lines 109-131: findOrCreate finds the row or inserts it, in one store call
SocialFindOrCreate(s) ==
    /\ req[s].op = "socialLogin" /\ req[s].pc = "findOrCreate"
    /\ LET q == req[s]
           found == SocialFind(q.email)
           id == IF found # 0 THEN found ELSE Len(users) + 1
           rows == IF found # 0 THEN users
                   ELSE Append(users, NewRow(q.email, q.body.name, NoPassword))
           user == [id |-> id, name |-> rows[id].name, email |-> rows[id].email,
                    role |-> rows[id].role]
       IN
       /\ users' = rows
       /\ req' = [req EXCEPT ![s] =
             [q EXCEPT !.pc = "update", !.user = user,
                       !.tokens = generateTokens(user, issued + 1)]]
       /\ issued' = issued + 1
    /\ UNCHANGED delivered

\* The key socialLogin hands to User.update (line 133).
SocialUpdateKey == "refreshToken"

\* lines 133-135
SocialUpdate(s) ==
    /\ req[s].op = "socialLogin" /\ req[s].pc = "update"
    /\ LET q == req[s] IN
       /\ users' = UserUpdate(q.user.id, SocialUpdateKey, q.tokens.refreshToken)
       /\ req' = [req EXCEPT ![s] =
             [Send(q, [NoRes EXCEPT !.status = 200, !.text = "Login successful",
                                    !.accessToken = q.tokens.accessToken,
                                    !.refreshToken = q.tokens.refreshToken])
                 EXCEPT !.pc = "done", !.wrote = TRUE]]
       /\ delivered' = delivered \cup {q.tokens}
    /\ UNCHANGED issued

-----------------------------------------------------------------------------
(* refreshToken, authController.ts:142-178                                 *)

\* What a client can present: nothing, a string that is no token, an
\* expired token, a token signed with another secret, or a refresh token
\* some response has carried.
Presentable ==
    {NoToken, Malformed, StaleToken, Forged}
        \cup {p.refreshToken : p \in delivered}

\* line 147: !refreshToken
TokenMissing(token) == token = NoToken

\* line 160: storedToken !== refreshToken
TokenMismatch(stored, presented) == stored # presented

\* lines 146-154 (catch: 175-177).  The 401 of line 148 is followed by no
\* return, so jwt.verify runs on every path.
RefreshStart(token) ==
    /\ CanBegin
    /\ RoomToMint
    /\ LET q0 == [Idle EXCEPT !.op = "refreshToken",
                              !.body = [NoBody EXCEPT !.refreshToken = token],
                              !.wasCurrent = (token # NoToken
                                              /\ StoredToken(token.id) = token)]
           q1 == IF TokenMissing(token)
                 THEN Send(q0, Failure(401, "Refresh token required"))
                 ELSE q0
           q2 == [q1 EXCEPT !.verified = TRUE]
           q3 == IF JwtVerifyOk(token)
                 THEN [q2 EXCEPT !.pc = "findByPk"]
                 ELSE \* the catch block; its send throws when one was sent
                      [Send(q2, Failure(403, "Invalid or expired refresh token"))
                          EXCEPT !.pc = "done", !.rejected = Sent(q2)]
       IN req' \in Begun(q3)
    /\ UNCHANGED <<users, issued, delivered>>

\* The claims refreshToken hands to generateTokens (line 166): the payload
\* of the presented token.
RefreshClaims(q) == Claims(q.body.refreshToken)

\* lines 157-166.  The 403 of line 161 is followed by no return.
RefreshFindByPk(s) ==
    /\ req[s].op = "refreshToken" /\ req[s].pc = "findByPk"
    /\ LET q == req[s]
           storedToken == StoredToken(q.body.refreshToken.id)
           q1 == IF TokenMismatch(storedToken, q.body.refreshToken)
                 THEN Send(q, Failure(403, "Invalid refresh token"))
                 ELSE q
       IN
       req' = [req EXCEPT ![s] =
                 [q1 EXCEPT !.pc = "update", !.lookedUp = TRUE,
                            !.tokens = generateTokens(RefreshClaims(q), issued + 1)]]
    /\ issued' = issued + 1
    /\ UNCHANGED <<users, delivered>>

\* The key refreshToken hands to User.update (line 170).
RefreshUpdateKeySnake == "refresh_token"
RefreshUpdateKey == "refreshToken"

\* lines 169-174 (catch: 175-177)
RefreshUpdate(s) ==
    /\ req[s].op = "refreshToken" /\ req[s].pc = "update"
    /\ LET q == req[s] IN
       /\ users' = UserUpdate(q.body.refreshToken.id, RefreshUpdateKey,
                              q.tokens.refreshToken)
       /\ IF Sent(q)
          THEN \* res.json throws, and so does the send of the catch block
               /\ req' = [req EXCEPT ![s] =
                     [q EXCEPT !.pc = "done", !.wrote = TRUE,
                               !.sends = q.sends + 2, !.rejected = TRUE]]
               /\ delivered' = delivered
          ELSE /\ req' = [req EXCEPT ![s] =
                     [Send(q, [NoRes EXCEPT !.status = 200,
                                            !.accessToken = q.tokens.accessToken,
                                            !.refreshToken = q.tokens.refreshToken])
                         EXCEPT !.pc = "done", !.wrote = TRUE]]
               /\ delivered' = delivered \cup {q.tokens}
    /\ UNCHANGED issued

-----------------------------------------------------------------------------
(* The rest of the service: the role of a row is changed.                  *)

\* The rows whose role an administrator changes.
Promotable == {1}

ChangeRole(i) ==
    /\ i \in Ids \cap Promotable
    /\ users[i].role = "user"
    /\ users' = [users EXCEPT ![i].role = "admin"]
    /\ UNCHANGED <<issued, delivered, req>>

-----------------------------------------------------------------------------

RegisterBodies ==
    {<<e, p>> : e \in Emails, p \in RegisterPasswords}
        \cup {<<MissingEmail, "p">>, <<<<"a">>, UNDEFINED>>}

Next ==
    \/ \E b \in RegisterBodies : RegisterStart(b[1], b[2])
    \/ \E s \in Slots : RegisterFindOne(s)
    \/ \E s \in Slots : RegisterCreate(s)
    \/ \E e \in Emails : \E p \in Passwords : LoginStart(e, p)
    \/ \E s \in Slots : LoginFindOne(s)
    \/ \E s \in Slots : LoginUpdate(s)
    \/ \E e \in Emails : SocialStart(e)
    \/ \E s \in Slots : SocialFindOrCreate(s)
    \/ \E s \in Slots : SocialUpdate(s)
    \/ \E t \in Presentable : RefreshStart(t)
    \/ \E s \in Slots : RefreshFindByPk(s)
    \/ \E s \in Slots : RefreshUpdate(s)
    \/ \E i \in Ids : ChangeRole(i)

Spec == Init /\ [][Next]_vars

-----------------------------------------------------------------------------
(* The outcomes of the specification, as the responses the handlers send.  *)

Done(q) == q.pc = "done"
ReturnsPair(q) == q.res.accessToken # NoToken /\ q.res.refreshToken # NoToken
Succeeds(q) == q.res.status = 200 /\ ReturnsPair(q)
Created(q) == q.res.status = 201
DuplicateEmail(q) ==
    q.res.status = 400 /\ q.res.text = "User with this email already exists"
MissingToken(q) == q.res.status = 401 /\ q.res.text = "Refresh token required"
InvalidOrExpired(q) ==
    q.res.status = 403 /\ q.res.text = "Invalid or expired refresh token"
RevokedOrReplayed(q) ==
    q.res.status = 403 /\ q.res.text = "Invalid refresh token"

Normalized(email) == ToLowerCase(Trim(email))

IsRefresh(q) == q.op = "refreshToken" /\ Done(q)
IsLogin(q) == q.op = "login" /\ Done(q)
IsRegister(q) ==
    /\ q.op = "register" /\ Done(q)
    /\ q.body.email # MissingEmail /\ q.body.password # UNDEFINED

\* a ran alone and had finished when b arrived, and b ran alone
InSequence(a, b) ==
    /\ Done(a) /\ Done(b)
    /\ a.rel = "before" /\ ~a.overlapped
    /\ b.rel = "after"

\* q is finished and no request has arrived since
Latest(q) == Done(q) /\ q.rel \in {"alone", "after"}

\* C1: when refresh is called twice in sequence with the refresh token that
\* was the user's current one before the first call, the first call succeeds
\* with a new token pair and the second fails with RevokedOrReplayed and
\* returns no token pair.
C1_SecondUseIsReplay ==
    \A a, b \in Slots :
        (/\ IsRefresh(req[a]) /\ IsRefresh(req[b])
         /\ InSequence(req[a], req[b])
         /\ req[a].body.refreshToken = req[b].body.refreshToken
         /\ req[a].wasCurrent)
        => /\ Succeeds(req[a])
           /\ req[a].res.refreshToken # req[a].body.refreshToken
           /\ RevokedOrReplayed(req[b])
           /\ ~ReturnsPair(req[b])

C1_Witness ==
    \E a, b \in Slots :
        /\ IsRefresh(req[a]) /\ IsRefresh(req[b])
        /\ InSequence(req[a], req[b])
        /\ req[a].body.refreshToken = req[b].body.refreshToken
        /\ req[a].wasCurrent
        /\ Succeeds(req[a])
        /\ RevokedOrReplayed(req[b])

\* C2: of two concurrent refresh calls that present the same refresh token,
\* the user's current one when each call arrived, exactly one succeeds with a
\* new token pair and the other fails with RevokedOrReplayed.
C2_ExactlyOneConcurrentRefreshSucceeds ==
    \A a, b \in Slots :
        (/\ a # b
         /\ IsRefresh(req[a]) /\ IsRefresh(req[b])
         /\ req[a].rel = "concurrent" /\ req[b].rel = "concurrent"
         /\ req[a].body.refreshToken = req[b].body.refreshToken
         /\ req[a].wasCurrent /\ req[b].wasCurrent)
        => \/ Succeeds(req[a]) /\ RevokedOrReplayed(req[b]) /\ ~ReturnsPair(req[b])
           \/ Succeeds(req[b]) /\ RevokedOrReplayed(req[a]) /\ ~ReturnsPair(req[a])

\* C3: when a login has succeeded, the refresh token it returned is the
\* user's stored refresh token, and a refresh that presents it right after
\* the login, with no request in between, succeeds.
C3_LoginTokenIsCurrent ==
    /\ \A a \in Slots :
        (IsLogin(req[a]) /\ Succeeds(req[a]) /\ Latest(req[a]) /\ ~req[a].overlapped)
        => StoredToken(req[a].user.id) = req[a].res.refreshToken
    /\ \A a, b \in Slots :
        (/\ IsLogin(req[a]) /\ Succeeds(req[a])
         /\ IsRefresh(req[b])
         /\ InSequence(req[a], req[b])
         /\ req[b].body.refreshToken = req[a].res.refreshToken)
        => Succeeds(req[b])

\* C4: a refresh that presents a validly signed, unexpired refresh token
\* which differs from the refresh token stored for the user of its id claim
\* fails with RevokedOrReplayed and issues no new token pair.
C4_MismatchIssuesNothing ==
    [][\A s \in Slots :
          (/\ req[s].op = "refreshToken"
           /\ req[s].pc = "findByPk" /\ req'[s].pc # "findByPk"
           /\ StoredToken(req[s].body.refreshToken.id) # req[s].body.refreshToken)
          => /\ RevokedOrReplayed(req'[s])
             /\ req'[s].tokens = NoTokens
             /\ issued' = issued]_vars

\* C5: a stored refresh token changes only in the step that completes a
\* successful login, social login or refresh; a refresh that fails leaves
\* every user's stored refresh token as it was.
C5_OnlySuccessChangesStoredToken ==
    [][\A i \in Ids :
          users'[i].refreshToken # users[i].refreshToken
          => \E s \in Slots :
                /\ ~Done(req[s]) /\ Done(req'[s])
                /\ req'[s].op \in {"login", "socialLogin", "refreshToken"}
                /\ Succeeds(req'[s])]_vars

\* C6: a refresh with no token is answered MissingToken at once: the token
\* is not verified, the store is neither read nor written.
C6_MissingTokenShortCircuits ==
    \A s \in Slots :
        (IsRefresh(req[s]) /\ req[s].body.refreshToken = NoToken)
        => /\ MissingToken(req[s])
           /\ ~req[s].verified
           /\ ~req[s].lookedUp
           /\ ~req[s].wrote

\* C7: of two register calls whose emails are equal once trimmed and
\* lower-cased, in sequence or concurrent, at most one creates the user and
\* the other is answered DuplicateEmail; one row holds that email.
C7_DuplicateRegisterIsDuplicateEmail ==
    \A a, b \in Slots :
        (/\ a # b
         /\ IsRegister(req[a]) /\ IsRegister(req[b])
         /\ Normalized(req[a].body.email) = Normalized(req[b].body.email))
        => /\ ~(Created(req[a]) /\ Created(req[b]))
           /\ Created(req[a]) \/ DuplicateEmail(req[a])
           /\ Created(req[b]) \/ DuplicateEmail(req[b])
           /\ Cardinality({i \in Ids :
                  users[i].email = Normalized(req[a].body.email)}) = 1

\* C8: once a login of a user has succeeded, a refresh that arrives later
\* and presents a refresh token issued to that user before the login is
\* rejected.  Stated for a login that no other request overlapped, so that
\* every token minted before the login's own was delivered before it arrived.
C8_LoginInvalidatesEarlierTokens ==
    \A a, b \in Slots :
        (/\ IsLogin(req[a]) /\ Succeeds(req[a])
         /\ IsRefresh(req[b])
         /\ InSequence(req[a], req[b])
         /\ req[b].body.refreshToken \in {p.refreshToken : p \in delivered}
         /\ req[b].body.refreshToken.id = req[a].user.id
         /\ req[b].body.refreshToken.iat < req[a].res.refreshToken.iat)
        => ~Succeeds(req[b])

\* C9: the token pair a refresh issues for a matching token carries the
\* name, email and role of the user's row as it is stored at the refresh,
\* not those of the presented token.
C9_RefreshUsesLiveClaims ==
    [][\A s \in Slots :
          (/\ req[s].op = "refreshToken"
           /\ req[s].pc = "findByPk" /\ req'[s].pc # "findByPk"
           /\ StoredToken(req[s].body.refreshToken.id) = req[s].body.refreshToken)
          => /\ Claims(req'[s].tokens.refreshToken)
                    = Plain(req[s].body.refreshToken.id)
             /\ Claims(req'[s].tokens.accessToken)
                    = Plain(req[s].body.refreshToken.id)]_vars

\* C10: after a user has registered with an email and a password, a login
\* with any casing or whitespace variant of that email and the same password
\* succeeds with a token pair.
C10_LoginNormalizesEmail ==
    \A a, b \in Slots :
        (/\ IsRegister(req[a]) /\ Created(req[a])
         /\ IsLogin(req[b])
         /\ InSequence(req[a], req[b])
         /\ Normalized(req[b].body.email) = req[a].res.user.email
         /\ req[b].body.password = req[a].body.password)
        => Succeeds(req[b])

IsSocial(q) == q.op = "socialLogin" /\ Done(q)

\* C11: no two rows have emails that are equal once trimmed and lower-cased,
\* and every stored email is in trimmed, lower-cased form.
C11_StoredEmailsNormalizedAndUnique ==
    /\ \A i, j \in Ids :
          Normalized(users[i].email) = Normalized(users[j].email) => i = j
    /\ \A i \in Ids : users[i].email = Normalized(users[i].email)

\* C12: the failure login returns for an email that has no row and the
\* failure it returns for the email of a row with another password are the
\* same response: same status, same message.
C12_LoginFailuresIndistinguishable ==
    \A a, b \in Slots :
        (/\ IsLogin(req[a]) /\ IsLogin(req[b])
         /\ FindOne(req[a].body.email) = 0
         /\ Latest(req[b]) /\ ~req[b].overlapped
         /\ FindOne(req[b].body.email) # 0
         /\ users[FindOne(req[b].body.email)].password
               \notin {NoPassword, BcryptHash(req[b].body.password)})
        => /\ req[a].res.status = req[b].res.status
           /\ req[a].res.text = req[b].res.text

\* C13: once a social login with an email has finished, one row holds that
\* email and the tokens are issued for its id; a later social login with
\* the same email adds no row and issues tokens for the same id.
C13_SocialLoginReusesRecord ==
    /\ \A a \in Slots :
          IsSocial(req[a])
          => /\ Cardinality({i \in Ids : users[i].email = req[a].body.email}) = 1
             /\ Succeeds(req[a])
             /\ users[req[a].res.refreshToken.id].email = req[a].body.email
    /\ \A a, b \in Slots :
          (/\ IsSocial(req[a]) /\ IsSocial(req[b])
           /\ req[a].rel = "before" /\ req[b].rel = "after"
           /\ req[a].body.email = req[b].body.email)
          => /\ req[b].res.refreshToken.id = req[a].res.refreshToken.id
             /\ req[b].res.accessToken.id = req[a].res.accessToken.id

C13_Witness ==
    \E a, b \in Slots :
        /\ IsSocial(req[a]) /\ IsSocial(req[b])
        /\ req[a].rel = "before" /\ req[b].rel = "after"
        /\ req[a].body.email = req[b].body.email
        /\ Succeeds(req[a]) /\ Succeeds(req[b])
        /\ req[b].res.refreshToken.id = req[a].res.refreshToken.id
        /\ issued = 2
        /\ Len(users) = 1

\* C14: when two concurrent social logins with the same email have finished,
\* one row holds that email, both have succeeded with tokens for the id of
\* that row, and neither has surfaced an error.
C14_ConcurrentSocialLoginsShareRecord ==
    \A a, b \in Slots :
        (/\ a # b
         /\ IsSocial(req[a]) /\ IsSocial(req[b])
         /\ req[a].rel = "concurrent" /\ req[b].rel = "concurrent"
         /\ req[a].body.email = req[b].body.email)
        => /\ Cardinality({i \in Ids : users[i].email = req[a].body.email}) = 1
           /\ Succeeds(req[a]) /\ Succeeds(req[b])
           /\ ~req[a].rejected /\ ~req[b].rejected
           /\ req[a].res.refreshToken.id = req[b].res.refreshToken.id
           /\ users[req[a].res.refreshToken.id].email = req[a].body.email

C14_Witness ==
    \E a, b \in Slots :
        /\ a # b
        /\ IsSocial(req[a]) /\ IsSocial(req[b])
        /\ req[a].rel = "concurrent" /\ req[b].rel = "concurrent"
        /\ req[a].body.email = req[b].body.email
        /\ Succeeds(req[a]) /\ Succeeds(req[b])
        /\ Len(users) = 1 /\ users[1].password = NoPassword
        /\ issued = 2

\* a token that is not signed with the refresh secret, or whose expiry has passed
FailsVerification(token) == token.secret # "refresh" \/ token.expired

\* C15: a refresh that presents a token which fails verification (bad
\* signature, malformed or expired) is answered InvalidOrExpired, returns no
\* token pair, mints none and neither reads nor writes the store.
C15_UnverifiableTokenIsInvalidOrExpired ==
    \A s \in Slots :
        (/\ IsRefresh(req[s])
         /\ req[s].body.refreshToken # NoToken
         /\ FailsVerification(req[s].body.refreshToken))
        => /\ InvalidOrExpired(req[s])
           /\ ~ReturnsPair(req[s])
           /\ req[s].tokens = NoTokens
           /\ ~req[s].lookedUp
           /\ ~req[s].wrote

C15_Witness ==
    \E a, b \in Slots :
        /\ IsRefresh(req[a]) /\ req[a].body.refreshToken = StaleToken
        /\ InvalidOrExpired(req[a])
        /\ IsRefresh(req[b]) /\ req[b].body.refreshToken \in {Malformed, Forged}
        /\ InvalidOrExpired(req[b])
        /\ StoredToken(1) # NoToken

\* C16: the user object a successful register returns has no password
\* field, and a successful login returns the message and the two tokens and
\* no user object.
C16_NoPasswordInResponses ==
    \A s \in Slots :
        /\ (req[s].op = "register" /\ Done(req[s]) /\ Created(req[s]))
           => /\ req[s].res.user.password = UNDEFINED
              /\ req[s].res.user.email = Normalized(req[s].body.email)
        /\ (IsLogin(req[s]) /\ Succeeds(req[s]))
           => req[s].res.user = NoSentUser

C16_Witness ==
    \E a, b \in Slots :
        /\ req[a].op = "register" /\ Done(req[a]) /\ Created(req[a])
        /\ users[req[a].res.user.id].password = BcryptHash(req[a].body.password)
        /\ IsLogin(req[b]) /\ Succeeds(req[b])

InvalidCredentials(q) ==
    q.res.status = 401 /\ q.res.text = "Invalid credentials"

\* C17: a login for the email of a row that has no password hash fails with
\* InvalidCredentials and returns no token pair.
C17_NoHashIsInvalidCredentials ==
    \A b \in Slots :
        (/\ IsLogin(req[b])
         /\ Latest(req[b]) /\ ~req[b].overlapped
         /\ FindOne(req[b].body.email) # 0
         /\ users[FindOne(req[b].body.email)].password = NoPassword)
        => /\ InvalidCredentials(req[b])
           /\ ~ReturnsPair(req[b])

ValidationError(q) == Sent(q) /\ q.res.status \in {400, 422}

\* C18: a register whose payload lacks the email or the password is
\* answered with a ValidationError response.
C18_MissingFieldIsValidationError ==
    \A s \in Slots :
        (/\ req[s].op = "register" /\ Done(req[s])
         /\ (req[s].body.email = MissingEmail \/ req[s].body.password = UNDEFINED))
        => ValidationError(req[s])

\* C19: a handler sends at most one response, and has sent one when it
\* has finished.  Stated for the requests whose payload has the fields the
\* handler reads before its try block (the others are C18's).
C19_ExactlyOneResponse ==
    \A s \in Slots :
        (req[s].op = "register"
            => (req[s].body.email # MissingEmail /\ req[s].body.password # UNDEFINED))
        => /\ req[s].sends <= 1
           /\ Done(req[s]) => (req[s].sends = 1 /\ Sent(req[s]))

====
